---------------------------- MODULE Spec2Model ----------------------------
(***************************************************************************)
(* A model of the chat utilities of python-sample-code:                    *)
(*   - ChatSession (src/src/common/chat_util.py): a message history that   *)
(*     send() extends and reset() truncates;                               *)
(*   - ChatUtil.batch_chat: N one-shot sessions run on a thread pool;      *)
(*   - the offline batch-job workflow of examples/azure_batch_chat.py.     *)
(* Python's None is the string NoneV; a remote call is a nondeterministic  *)
(* choice between a reply and a raised error.                              *)
(***************************************************************************)
EXTENDS Integers, Sequences, FiniteSets, TLC

(* ------------------------------ bounds -------------------------------- *)

\* send() is not started once the history holds this many messages.
MaxHistory == 5

\* batch_chat is given at most this many prompts.
MaxPrompts == 3

\* batch_chat is given a pool of at most this many workers.
MaxWorkers == 2

\* The ghost count of status polls stops counting here (the polling goes on).
MaxPolls == 3

\* The downloaded result file has at most this many lines.
MaxLines == 3

\* quick_chat is called at most this many times on one ChatUtil.
MaxQuick == 2

\* to_json_array is given collections of at most this many elements.
MaxItems == 2

(* ------------------------------ values -------------------------------- *)

NoneV == "<None>"

\* The system_prompt argument: absent, empty, or a text.
SystemPrompts == {NoneV, "", "You are concise."}

\* The user_message argument of send().
UserTexts == {"Hello", "How are you?"}

\* The content of the first choice of a successful remote reply.
Replies == {"ok", "fine"}

\* The callers (threads) that may use one ChatSession.
Threads == {"A", "B"}

\* The deployment argument: empty, or a name.
Deployments == {"", "demo"}

\* The prompts batch_chat is given.
PromptTexts == {"Hello", "How are you?"}

RECURSIVE SeqsUpTo(_, _)
\* The sequences over S of length at most n.
SeqsUpTo(S, n) ==
    IF n = 0 THEN { << >> }
    ELSE LET shorter == SeqsUpTo(S, n - 1)
         IN  shorter \cup { Append(q, x) : q \in shorter, x \in S }

\* Python truthiness of an Optional[str]: None and "" are falsy.
Truthy(s) == s # NoneV /\ s # ""

\* Errors are pairs: the kind and the call that raised it (0: the caller's own).
NoError == << "none", 0 >>

ValueError == << "ValueError", 0 >>

\* The error the remote chat call of _call(prompts[i]) raises.
RemoteError(i) == << "RemoteError", i >>

\* A batch job as the remote reports it.
NoBatch == [id |-> NoneV, status |-> NoneV, output_file_id |-> NoneV]

Msg(role, content) == [role |-> role, content |-> content]

(* --------------------------- ChatSession ------------------------------ *)

\* Mutant: the constructor tests "is not None" instead of truthiness.
CtorMessages_NotNone(system_prompt) ==
    IF system_prompt # NoneV THEN << Msg("system", system_prompt) >> ELSE << >>

\* ChatSession.__init__, lines 41-43: the history right after construction.
CtorMessages(system_prompt) ==
    IF Truthy(system_prompt) THEN << Msg("system", system_prompt) >> ELSE << >>

\* Mutant: send keeps a sliding window, dropping the oldest message.
AppendUser_Window(msgs, um) ==
    IF Len(msgs) >= 3 THEN Tail(Append(msgs, Msg("user", um)))
    ELSE Append(msgs, Msg("user", um))

\* ChatSession.send, line 49.
AppendUser(msgs, um) == Append(msgs, Msg("user", um))

\* Mutant: the assistant message is appended without the reply's content.
AppendAssistant_Blank(msgs, reply) == Append(msgs, Msg("assistant", ""))

\* ChatSession.send, line 57.
AppendAssistant(msgs, reply) == Append(msgs, Msg("assistant", reply))

\* Mutant: reset only clears and forgets to re-seed the system message.
ResetMessages_ClearOnly(msgs, initial) == SubSeq(msgs, 1, 0)

\* ChatSession.reset, lines 66-68.
ResetMessages(msgs, initial) ==
    LET cleared == SubSeq(msgs, 1, 0)
    IN  IF Truthy(initial) THEN Append(cleared, Msg("system", initial)) ELSE cleared

\* ChatSession.history, line 62: a copy of the list.
history(msgs) == [i \in 1..Len(msgs) |-> msgs[i]]

VARIABLES
    callers,                \* the threads that use the session
    initial_system_prompt,  \* self._initial_system_prompt
    messages,               \* self.messages
    pc,                     \* where each caller stands inside send()
    user_message,           \* each caller's argument of the send() in progress
    request,                \* the messages of each caller's latest remote call
    before,                 \* the history when the caller's send in progress began
    text,                   \* what each caller's latest send() returned
    constructed,            \* ghost: history() right after construction
    sends_ok,               \* ghost: sends that returned since construction/reset
    sends_failed,           \* ghost: sends that raised since construction/reset
    last_op                 \* ghost: the operation that finished last

sessionVars == << callers, initial_system_prompt, messages, pc, user_message,
                  request, before, text, constructed, sends_ok,
                  sends_failed, last_op >>

VARIABLES
    deployment,     \* batch_chat's arguments
    prompts,
    system_prompt,
    max_workers,
    bpc,            \* where the thread that called batch_chat stands
    fut,            \* futures[i]: "unsubmitted", "pending", "running", "finished"
    tpc,            \* where _call(prompts[i]) stands inside its worker
    session,        \* the messages of each ChatSession the workers built
    call_request,   \* the messages of the request _call(prompts[i]) issued
    outcome,        \* what future i holds: a reply or an error
    consumed,       \* the futures the collecting loop has been through
    results,        \* the local list results
    pending_error,  \* the error travelling out of the with block
    overtaken,      \* ghost: some call finished before an earlier prompt's call
    exit_kind,      \* how batch_chat ended: "none", "returned", "raised"
    returned,       \* the list batch_chat returned
    raised          \* the error batch_chat raised

batchVars == << deployment, prompts, system_prompt, max_workers, bpc, fut, tpc,
                session, call_request, outcome, consumed, results,
                pending_error, overtaken, exit_kind, returned, raised >>

VARIABLES
    env_endpoint,           \* AZURE_OPENAI_ENDPOINT
    env_api_version,        \* AZURE_OPENAI_API_VERSION
    env_deployment_batch,   \* AZURE_OPENAI_DEPLOYMENT_BATCH
    env_has_sp,             \* the three service-principal variables are all set
    env_api_key,            \* AZURE_OPENAI_API_KEY
    wpc,                    \* where main() of azure_batch_chat.py stands
    file_id,                \* main's locals
    batch,
    batch_id,
    status,
    output_file_id,
    werror,                 \* the error main() ended with
    polls,                  \* ghost: retrieve calls answered, up to MaxPolls
    exited_loop,            \* ghost: the while loop of line 97 has ended
    requested               \* ghost: the remote operations asked for, in order

jobVars == << env_endpoint, env_api_version, env_deployment_batch, env_has_sp,
              env_api_key, wpc, file_id, batch, batch_id, status,
              output_file_id, werror, polls, exited_loop, requested >>

VARIABLES
    text_lines,             \* text.splitlines() of the downloaded result file
    line_no,                \* the line the for loop of line 120 is at
    by_custom_id,           \* main's dict of line 119
    replies,                \* the replies printed by the loop of line 138
    rpc,                    \* where the parsing and reporting stands
    entered                 \* ghost: the lines whose try block ran to its end

parseVars == << text_lines, line_no, by_custom_id, replies, rpc, entered >>

VARIABLES
    f_entry,                \* which way the factory is asked for
    f_endpoint,             \* the caller's arguments
    f_api_version,
    f_token_provider,
    f_api_key,
    os_endpoint,            \* os.getenv("AZURE_OPENAI_ENDPOINT")
    os_api_version,         \* os.getenv("AZURE_OPENAI_API_VERSION")
    os_api_key,             \* os.getenv("AZURE_OPENAI_API_KEY")
    fpc,                    \* where the caller stands
    factory,                \* the AzureOpenAIClientFactory, << >> if none
    client,                 \* the AzureOpenAI client, << >> if none
    f_error                 \* the error the caller got

factoryVars == << f_entry, f_endpoint, f_api_version, f_token_provider,
                  f_api_key, os_endpoint, os_api_version, os_api_key, fpc,
                  factory, client, f_error >>

VARIABLES
    q_deployment,           \* the arguments of the quick_chat call under way
    q_user_message,
    q_system_prompt,
    qpc,                    \* where quick_chat stands
    q_session,              \* the messages of the session of line 89
    q_request,              \* the messages sent with the remote call
    q_calls,                \* ghost: remote chat calls made by this quick_chat
    q_remote,               \* ghost: the error the remote call raised
    q_exit,                 \* how the last quick_chat ended
    q_returned,             \* the text it returned
    q_raised,               \* the error it raised
    q_done                  \* how the quick_chat calls on this ChatUtil ended

quickVars == << q_deployment, q_user_message, q_system_prompt, qpc, q_session,
                q_request, q_calls, q_remote, q_exit, q_returned, q_raised,
                q_done >>

VARIABLES
    i_client_id,            \* the arguments of AzureIdentityUtil.from_env
    i_tenant_id,
    i_client_secret,
    os_client_id,           \* os.getenv("AZURE_CLIENT_ID")
    os_tenant_id,           \* os.getenv("AZURE_TENANT_ID")
    os_client_secret,       \* os.getenv("AZURE_CLIENT_SECRET")
    ipc,                    \* where the caller stands
    credential,             \* the ClientSecretCredential, << >> if none
    i_missing,              \* the names listed in the error message
    i_error                 \* the error the caller got

identityVars == << i_client_id, i_tenant_id, i_client_secret, os_client_id,
                   os_tenant_id, os_client_secret, ipc, credential, i_missing,
                   i_error >>

VARIABLES
    j_arr,                  \* the arguments of to_json_array
    j_ensure_ascii,
    j_sort_keys,
    jpc,                    \* where the caller stands
    j_result,               \* the JSON text returned
    j_error                 \* the error the caller got

jsonVars == << j_arr, j_ensure_ascii, j_sort_keys, jpc, j_result, j_error >>

VARIABLES
    jl_deployment,          \* the arguments of build_jsonl_lines
    jl_prompts,
    jl_system_prompt,
    jl_i,                   \* the index the loop of line 16 is at
    jl_entries,             \* ghost: the entry dicts of lines 24-29, in order
    jl_lines,               \* the list lines of line 15
    jlpc                    \* where build_jsonl_lines stands

buildVars == << jl_deployment, jl_prompts, jl_system_prompt, jl_i, jl_entries,
                jl_lines, jlpc >>

vars == << sessionVars, batchVars, jobVars, parseVars, factoryVars,
           quickVars, identityVars, jsonVars, buildVars >>

SessionFrame ==
    UNCHANGED << batchVars, jobVars, parseVars, factoryVars,
                 quickVars, identityVars, jsonVars, buildVars >>

BatchFrame ==
    UNCHANGED << sessionVars, jobVars, parseVars, factoryVars,
                 quickVars, identityVars, jsonVars, buildVars >>

JobFrame ==
    UNCHANGED << sessionVars, batchVars, parseVars, factoryVars,
                 quickVars, identityVars, jsonVars, buildVars >>

ParseFrame ==
    UNCHANGED << sessionVars, batchVars, jobVars, factoryVars,
                 quickVars, identityVars, jsonVars, buildVars >>

FactoryFrame ==
    UNCHANGED << sessionVars, batchVars, jobVars, parseVars,
                 quickVars, identityVars, jsonVars, buildVars >>

QuickFrame ==
    UNCHANGED << sessionVars, batchVars, jobVars, parseVars,
                 factoryVars, identityVars, jsonVars, buildVars >>

IdentityFrame ==
    UNCHANGED << sessionVars, batchVars, jobVars, parseVars,
                 factoryVars, quickVars, jsonVars, buildVars >>

JsonFrame ==
    UNCHANGED << sessionVars, batchVars, jobVars, parseVars,
                 factoryVars, quickVars, identityVars, buildVars >>

BuildFrame ==
    UNCHANGED << sessionVars, batchVars, jobVars, parseVars,
                 factoryVars, quickVars, identityVars, jsonVars >>

\* build_jsonl_lines is not being called.
BuildIdle ==
    /\ jl_deployment = NoneV
    /\ jl_prompts = << >>
    /\ jl_system_prompt = NoneV
    /\ jl_i = 0
    /\ jl_entries = << >>
    /\ jl_lines = << >>
    /\ jlpc = "idle"

\* No factory is being asked for.
FactoryIdle ==
    /\ f_entry = "none"
    /\ f_endpoint = NoneV
    /\ f_api_version = NoneV
    /\ f_token_provider = NoneV
    /\ f_api_key = NoneV
    /\ os_endpoint = NoneV
    /\ os_api_version = NoneV
    /\ os_api_key = NoneV
    /\ fpc = "idle"
    /\ factory = << >>
    /\ client = << >>
    /\ f_error = NoError

\* There is no ChatUtil.
QuickIdle ==
    /\ q_deployment = NoneV
    /\ q_user_message = NoneV
    /\ q_system_prompt = NoneV
    /\ qpc = "idle"
    /\ q_session = << >>
    /\ q_request = << >>
    /\ q_calls = 0
    /\ q_remote = NoError
    /\ q_exit = "none"
    /\ q_returned = NoneV
    /\ q_raised = NoError
    /\ q_done = << >>

\* No credential is being asked for.
IdentityIdle ==
    /\ i_client_id = NoneV
    /\ i_tenant_id = NoneV
    /\ i_client_secret = NoneV
    /\ os_client_id = NoneV
    /\ os_tenant_id = NoneV
    /\ os_client_secret = NoneV
    /\ ipc = "idle"
    /\ credential = << >>
    /\ i_missing = << >>
    /\ i_error = NoError

\* to_json_array is not being called.
JsonIdle ==
    /\ j_arr = [kind |-> "None", items |-> << >>]
    /\ j_ensure_ascii = FALSE
    /\ j_sort_keys = FALSE
    /\ jpc = "idle"
    /\ j_result = NoneV
    /\ j_error = NoError

\* The number of prompts main() of azure_batch_chat.py submits.
NumJobPrompts == 3

\* The custom_id build_jsonl_lines gives request i, and line 139 looks up.
CustomId(i) == "task-" \o ToString(i)

\* The custom_id values a result line can carry (None: the key is absent).
LineIds == {NoneV} \cup {CustomId(i) : i \in 0 .. NumJobPrompts - 1}

\* A key by_custom_id does not hold.
Absent == "<absent>"

\* by_custom_id as line 119 creates it.
EmptyLookup == [k \in LineIds |-> Absent]

\* No result file is being read.
ParseIdle ==
    /\ text_lines = << >>
    /\ line_no = 1
    /\ by_custom_id = EmptyLookup
    /\ replies = << >>
    /\ rpc = "idle"
    /\ entered = {}

\* ChatSession(factory, deployment, system_prompt) used by the callers cs.
SessionInit(cs) ==
    /\ callers = cs
    /\ initial_system_prompt \in SystemPrompts
    /\ messages = CtorMessages(initial_system_prompt)
    /\ pc = [t \in Threads |-> "idle"]
    /\ user_message = [t \in Threads |-> NoneV]
    /\ request = [t \in Threads |-> << >>]
    /\ before = [t \in Threads |-> << >>]
    /\ text = [t \in Threads |-> NoneV]
    /\ constructed = history(messages)
    /\ sends_ok = 0
    /\ sends_failed = 0
    /\ last_op = "init"

\* Caller t leaves send(): the frame's locals are gone.
Leave(t) ==
    /\ pc' = [pc EXCEPT ![t] = "idle"]
    /\ user_message' = [user_message EXCEPT ![t] = NoneV]
    /\ request' = [request EXCEPT ![t] = << >>]
    /\ before' = [before EXCEPT ![t] = << >>]

\* Mutant: send holds a lock, so a send starts only when no other is running.
SendAppend_Locked(t) ==
    /\ t \in callers
    /\ \A u \in callers : pc[u] = "idle"
    /\ Len(messages) < MaxHistory
    /\ \E um \in UserTexts :
         /\ user_message' = [user_message EXCEPT ![t] = um]
         /\ messages' = AppendUser(messages, um)
    /\ before' = [before EXCEPT ![t] = messages]
    /\ pc' = [pc EXCEPT ![t] = "appended"]
    /\ UNCHANGED << callers, initial_system_prompt, request, text, constructed,
                    sends_ok, sends_failed, last_op >>
    /\ SessionFrame

\* send(), line 49: the user message is appended first.
SendAppend(t) ==
    /\ t \in callers
    /\ pc[t] = "idle"
    /\ Len(messages) < MaxHistory
    /\ \E um \in UserTexts :
         /\ user_message' = [user_message EXCEPT ![t] = um]
         /\ messages' = AppendUser(messages, um)
    /\ before' = [before EXCEPT ![t] = messages]
    /\ pc' = [pc EXCEPT ![t] = "appended"]
    /\ UNCHANGED << callers, initial_system_prompt, request, text, constructed,
                    sends_ok, sends_failed, last_op >>
    /\ SessionFrame

\* send(), lines 50-55: the client is created and the request is issued with
\* the whole history.
SendCall(t) ==
    /\ t \in callers
    /\ pc[t] = "appended"
    /\ request' = [request EXCEPT ![t] = messages]
    /\ pc' = [pc EXCEPT ![t] = "called"]
    /\ UNCHANGED << callers, initial_system_prompt, messages, user_message,
                    before, text, constructed, sends_ok, sends_failed, last_op >>
    /\ SessionFrame

\* send(), lines 56-58: the reply is appended and returned.
SendReturn(t) ==
    /\ t \in callers
    /\ pc[t] = "called"
    /\ \E reply \in Replies :
         /\ messages' = AppendAssistant(messages, reply)
         /\ text' = [text EXCEPT ![t] = reply]
    /\ Leave(t)
    /\ sends_ok' = sends_ok + 1
    /\ last_op' = "send"
    /\ UNCHANGED << callers, initial_system_prompt, constructed, sends_failed >>
    /\ SessionFrame

\* Mutant: a send that raises puts the history back as it found it.
SendRaise_Rollback(t) ==
    /\ t \in callers
    /\ pc[t] \in {"appended", "called"}
    /\ Leave(t)
    /\ messages' = before[t]
    /\ text' = [text EXCEPT ![t] = NoneV]
    /\ sends_failed' = sends_failed + 1
    /\ last_op' = "send_raised"
    /\ UNCHANGED << callers, initial_system_prompt, constructed, sends_ok >>
    /\ SessionFrame

\* send(), lines 50-56 raising (create_client, the remote call, or a reply
\* without choices): the error propagates, nothing is undone.
SendRaise(t) ==
    /\ t \in callers
    /\ pc[t] \in {"appended", "called"}
    /\ Leave(t)
    /\ text' = [text EXCEPT ![t] = NoneV]
    /\ sends_failed' = sends_failed + 1
    /\ last_op' = "send_raised"
    /\ UNCHANGED << callers, initial_system_prompt, messages, constructed, sends_ok >>
    /\ SessionFrame

\* reset(), lines 64-68.
Reset(t) ==
    /\ t \in callers
    /\ pc[t] = "idle"
    /\ messages' = ResetMessages(messages, initial_system_prompt)
    /\ sends_ok' = 0
    /\ sends_failed' = 0
    /\ last_op' = "reset"
    /\ UNCHANGED << callers, initial_system_prompt, pc, user_message, request,
                    before, text, constructed >>
    /\ SessionFrame

\* No batch_chat call is in progress.
BatchIdle ==
    /\ deployment = "demo"
    /\ prompts = << >>
    /\ system_prompt = NoneV
    /\ max_workers = 1
    /\ bpc = "idle"
    /\ fut = << >>
    /\ tpc = << >>
    /\ session = << >>
    /\ call_request = << >>
    /\ outcome = << >>
    /\ consumed = {}
    /\ results = << >>
    /\ pending_error = NoError
    /\ overtaken = FALSE
    /\ exit_kind = "none"
    /\ returned = << >>
    /\ raised = NoError

\* main() of azure_batch_chat.py is not running.
JobIdle ==
    /\ env_endpoint = NoneV
    /\ env_api_version = NoneV
    /\ env_deployment_batch = NoneV
    /\ env_has_sp = FALSE
    /\ env_api_key = NoneV
    /\ wpc = "idle"
    /\ file_id = NoneV
    /\ batch = NoBatch
    /\ batch_id = NoneV
    /\ status = NoneV
    /\ output_file_id = NoneV
    /\ werror = "none"
    /\ polls = 0
    /\ exited_loop = FALSE
    /\ requested = << >>

Init ==
    /\ SessionInit({"A"})
    /\ BatchIdle
    /\ JobIdle
    /\ ParseIdle
    /\ FactoryIdle
    /\ QuickIdle
    /\ IdentityIdle
    /\ JsonIdle
    /\ BuildIdle

Next ==
    \E t \in Threads :
        \/ SendAppend(t)
        \/ SendCall(t)
        \/ SendReturn(t)
        \/ SendRaise(t)
        \/ Reset(t)

\* One ChatSession used by a single caller.
Spec == Init /\ [][Next]_vars

(* ------------------------- ChatUtil.batch_chat ------------------------ *)

N == Len(prompts)

Calls == 1..N

\* batch_chat(deployment, prompts, system_prompt, max_workers) has been called.
BatchInit ==
    /\ deployment \in Deployments
    /\ prompts \in SeqsUpTo(PromptTexts, MaxPrompts)
    /\ system_prompt \in SystemPrompts
    /\ max_workers \in 1..MaxWorkers
    /\ bpc = "start"
    /\ fut = [i \in Calls |-> "unsubmitted"]
    /\ tpc = [i \in Calls |-> "none"]
    /\ session = [i \in Calls |-> << >>]
    /\ call_request = [i \in Calls |-> << >>]
    /\ outcome = [i \in Calls |-> [ok |-> FALSE, text |-> NoneV, error |-> NoError]]
    /\ consumed = {}
    /\ results = << >>
    /\ pending_error = NoError
    /\ overtaken = FALSE
    /\ exit_kind = "none"
    /\ returned = << >>
    /\ raised = NoError

\* Mutant: one session is built once and shared by every call.
SessionOf_Shared(i) == 1

\* _call, lines 121-126: each call builds a session of its own; sessions are
\* named by the call that built them.
SessionOf(i) == i

\* Line 131: future i runs _call on the i-th prompt.
TaskPrompt(i) == prompts[i]

\* ThreadPoolExecutor: at most max_workers calls run at a time.
WorkerFree == Cardinality({ i \in Calls : fut[i] = "running" }) < max_workers

\* The work queue is first in, first out.
HeadOfQueue(i) == \A j \in Calls : fut[j] = "pending" => i <= j

\* Mutant: the executor is shut down without waiting (wait=False).
ExecutorJoined_NoWait == TRUE

\* Line 130, leaving the with block: shutdown(wait=True) joins the workers,
\* which first run every queued call.
ExecutorJoined == \A i \in Calls : fut[i] = "finished"

\* Mutant: the loop takes the futures as they complete (as_completed).
NextFuture_AsCompleted ==
    IF Calls \ consumed = {} THEN {}
    ELSE LET done == { i \in Calls \ consumed : fut[i] = "finished" }
         IN  IF done = {} THEN { CHOOSE i \in Calls \ consumed : TRUE } ELSE done

\* Line 132: the loop goes through the futures in submission order.
NextFuture == { i \in Calls \ consumed : \A j \in Calls \ consumed : i <= j }

\* Mutant: a failed call's error is swallowed and its reply left empty.
FutureResult_Swallow(i) ==
    IF outcome[i].ok THEN outcome[i]
    ELSE [ok |-> TRUE, text |-> NoneV, error |-> NoError]

\* Line 133, fut.result(): the reply, or the call's error raised again.
FutureResult(i) == outcome[i]

\* Lines 113-116: the argument checks.
BatchEnter ==
    /\ bpc = "start"
    /\ IF deployment = ""
         THEN /\ bpc' = "done" /\ exit_kind' = "raised" /\ raised' = ValueError
              /\ UNCHANGED returned
         ELSE IF prompts = << >>
         THEN /\ bpc' = "done" /\ exit_kind' = "returned" /\ returned' = << >>
              /\ UNCHANGED raised
         ELSE /\ bpc' = "submit"
              /\ UNCHANGED << exit_kind, returned, raised >>
    /\ UNCHANGED << deployment, prompts, system_prompt, max_workers, fut, tpc,
                    session, call_request, outcome, consumed, results,
                    pending_error >>
    /\ UNCHANGED overtaken
    /\ BatchFrame

\* Line 131: the next prompt is submitted; after the last one the loop of
\* line 132 begins.
Submit ==
    /\ bpc = "submit"
    /\ \E i \in Calls :
         /\ fut[i] = "unsubmitted"
         /\ \A j \in Calls : fut[j] = "unsubmitted" => i <= j
         /\ fut' = [fut EXCEPT ![i] = "pending"]
         /\ bpc' = IF i = N THEN "collect" ELSE "submit"
    /\ UNCHANGED << deployment, prompts, system_prompt, max_workers, tpc,
                    session, call_request, outcome, consumed, results,
                    pending_error, exit_kind, returned, raised >>
    /\ UNCHANGED overtaken
    /\ BatchFrame

\* A worker takes call i off the queue; _call, lines 121-126, builds its session.
TaskStart(i) ==
    /\ fut[i] = "pending"
    /\ HeadOfQueue(i)
    /\ WorkerFree
    /\ fut' = [fut EXCEPT ![i] = "running"]
    /\ session' = [session EXCEPT ![SessionOf(i)] = CtorMessages(system_prompt)]
    /\ tpc' = [tpc EXCEPT ![i] = "constructed"]
    /\ UNCHANGED << deployment, prompts, system_prompt, max_workers, bpc,
                    call_request, outcome, consumed, results, pending_error,
                    exit_kind, returned, raised >>
    /\ UNCHANGED overtaken
    /\ BatchFrame

\* _call, line 127: session.send(prompt), line 49.
TaskAppend(i) ==
    /\ tpc[i] = "constructed"
    /\ session' = [session EXCEPT
                     ![SessionOf(i)] = AppendUser(session[SessionOf(i)], TaskPrompt(i))]
    /\ tpc' = [tpc EXCEPT ![i] = "appended"]
    /\ UNCHANGED << deployment, prompts, system_prompt, max_workers, bpc, fut,
                    call_request, outcome, consumed, results, pending_error,
                    exit_kind, returned, raised >>
    /\ UNCHANGED overtaken
    /\ BatchFrame

\* session.send(prompt), lines 50-55.
TaskCall(i) ==
    /\ tpc[i] = "appended"
    /\ call_request' = [call_request EXCEPT ![i] = session[SessionOf(i)]]
    /\ tpc' = [tpc EXCEPT ![i] = "called"]
    /\ UNCHANGED << deployment, prompts, system_prompt, max_workers, bpc, fut,
                    session, outcome, consumed, results, pending_error,
                    exit_kind, returned, raised >>
    /\ UNCHANGED overtaken
    /\ BatchFrame

\* session.send(prompt), lines 56-58: the future holds the reply.
TaskReturn(i) ==
    /\ tpc[i] = "called"
    /\ \E reply \in Replies :
         /\ session' = [session EXCEPT
                          ![SessionOf(i)] = AppendAssistant(session[SessionOf(i)], reply)]
         /\ outcome' = [outcome EXCEPT
                          ![i] = [ok |-> TRUE, text |-> reply, error |-> NoError]]
    /\ tpc' = [tpc EXCEPT ![i] = "returned"]
    /\ fut' = [fut EXCEPT ![i] = "finished"]
    /\ overtaken' = (overtaken \/ \E j \in Calls : j < i /\ fut[j] # "finished")
    /\ UNCHANGED << deployment, prompts, system_prompt, max_workers, bpc,
                    call_request, consumed, results, pending_error, exit_kind,
                    returned, raised >>
    /\ BatchFrame

\* session.send(prompt) raising: the future holds the error.
TaskRaise(i) ==
    /\ tpc[i] \in {"appended", "called"}
    /\ outcome' = [outcome EXCEPT
                     ![i] = [ok |-> FALSE, text |-> NoneV, error |-> RemoteError(i)]]
    /\ tpc' = [tpc EXCEPT ![i] = "raised"]
    /\ fut' = [fut EXCEPT ![i] = "finished"]
    /\ overtaken' = (overtaken \/ \E j \in Calls : j < i /\ fut[j] # "finished")
    /\ UNCHANGED << deployment, prompts, system_prompt, max_workers, bpc,
                    session, call_request, consumed, results, pending_error,
                    exit_kind, returned, raised >>
    /\ BatchFrame

\* Lines 132-133: fut.result() waits for the next future and its reply is
\* appended to results.
CollectResult ==
    /\ bpc = "collect"
    /\ \E i \in NextFuture :
         /\ fut[i] = "finished"
         /\ FutureResult(i).ok
         /\ results' = Append(results, FutureResult(i).text)
         /\ consumed' = consumed \cup {i}
    /\ UNCHANGED << deployment, prompts, system_prompt, max_workers, bpc, fut,
                    tpc, session, call_request, outcome, pending_error,
                    exit_kind, returned, raised >>
    /\ UNCHANGED overtaken
    /\ BatchFrame

\* Line 133: fut.result() raises the call's error, which leaves the loop.
CollectRaise ==
    /\ bpc = "collect"
    /\ \E i \in NextFuture :
         /\ fut[i] = "finished"
         /\ ~FutureResult(i).ok
         /\ pending_error' = FutureResult(i).error
    /\ bpc' = "exit"
    /\ UNCHANGED << deployment, prompts, system_prompt, max_workers, fut, tpc,
                    session, call_request, outcome, consumed, results,
                    exit_kind, returned, raised >>
    /\ UNCHANGED overtaken
    /\ BatchFrame

\* Line 132: the loop is through.
CollectEnd ==
    /\ bpc = "collect"
    /\ NextFuture = {}
    /\ bpc' = "exit"
    /\ UNCHANGED << deployment, prompts, system_prompt, max_workers, fut, tpc,
                    session, call_request, outcome, consumed, results,
                    pending_error, exit_kind, returned, raised >>
    /\ UNCHANGED overtaken
    /\ BatchFrame

\* Lines 130 and 134: the with block is left once the executor has shut
\* down; then results is returned, or the pending error goes on to the caller.
ExitWith ==
    /\ bpc = "exit"
    /\ ExecutorJoined
    /\ bpc' = "done"
    /\ IF pending_error = NoError
         THEN /\ exit_kind' = "returned" /\ returned' = results /\ UNCHANGED raised
         ELSE /\ exit_kind' = "raised" /\ raised' = pending_error /\ UNCHANGED returned
    /\ UNCHANGED << deployment, prompts, system_prompt, max_workers, fut, tpc,
                    session, call_request, outcome, consumed, results,
                    pending_error >>
    /\ UNCHANGED overtaken
    /\ BatchFrame

\* No ChatSession besides the workers' own is in use.
SessionIdle == SessionInit({}) /\ initial_system_prompt = NoneV

InitBatch ==
    /\ SessionIdle
    /\ BatchInit
    /\ JobIdle
    /\ ParseIdle
    /\ FactoryIdle
    /\ QuickIdle
    /\ IdentityIdle
    /\ JsonIdle
    /\ BuildIdle

NextBatch ==
    \/ BatchEnter
    \/ Submit
    \/ \E i \in Calls : TaskStart(i)
    \/ \E i \in Calls : TaskAppend(i)
    \/ \E i \in Calls : TaskCall(i)
    \/ \E i \in Calls : TaskReturn(i)
    \/ \E i \in Calls : TaskRaise(i)
    \/ CollectResult
    \/ CollectRaise
    \/ CollectEnd
    \/ ExitWith

\* One call of batch_chat: the caller's thread and the pool's workers.
SpecBatch == InitBatch /\ [][NextBatch]_vars

(* --------------- examples/azure_batch_chat.py: main() ----------------- *)

\* What an environment variable may hold: unset, empty, or a value.
EnvValues == {NoneV, "", "set"}

\* The id of the uploaded file as the remote reports it (getattr default None).
FileIds == {NoneV, "", "file-in"}

\* The job id as the remote reports it.
BatchIds == {NoneV, "batch-1"}

\* The job status as the remote reports it: absent, a documented non-terminal
\* or terminal one, or one the program does not know.
Statuses == {NoneV, "validating", "in_progress", "expired",
             "completed", "failed", "cancelled"}

\* The output file id of the job as the remote reports it.
OutputFileIds == {NoneV, "file-out"}

\* Line 93.
terminal_states == {"completed", "failed", "cancelled"}

\* Mutant: the loop gives up after two polls.
KeepPolling_Limited(st) == st \notin terminal_states /\ polls < 2

\* Mutant: the loop only waits while the job is validating.
KeepPolling_WhileValidating(st) == st = "validating"

\* Line 97: the loop condition.
KeepPolling(st) == st \notin terminal_states

\* main() starts with some environment.
JobInit ==
    /\ env_endpoint \in EnvValues
    /\ env_api_version \in EnvValues
    /\ env_deployment_batch \in EnvValues
    /\ env_has_sp \in BOOLEAN
    /\ env_api_key \in EnvValues
    /\ wpc = "env"
    /\ file_id = NoneV
    /\ batch = NoBatch
    /\ batch_id = NoneV
    /\ status = NoneV
    /\ output_file_id = NoneV
    /\ werror = "none"
    /\ polls = 0
    /\ exited_loop = FALSE
    /\ requested = << >>

\* main() ends by raising e.
Raise(e) == wpc' = "raised" /\ werror' = e

\* Mutant: main() does not look at the three variables.
CheckEnv_NoCheck ==
    /\ wpc = "env"
    /\ wpc' = "auth"
    /\ UNCHANGED << env_endpoint, env_api_version, env_deployment_batch,
                    env_has_sp, env_api_key, file_id, batch, batch_id, status,
                    output_file_id, werror, polls, exited_loop, requested >>
    /\ JobFrame

\* Lines 35-43: the three required variables.
CheckEnv ==
    /\ wpc = "env"
    /\ IF ~Truthy(env_endpoint) \/ ~Truthy(env_api_version)
            \/ ~Truthy(env_deployment_batch)
         THEN Raise("RuntimeError")
         ELSE wpc' = "auth" /\ UNCHANGED werror
    /\ UNCHANGED << env_endpoint, env_api_version, env_deployment_batch,
                    env_has_sp, env_api_key, file_id, batch, batch_id, status,
                    output_file_id, polls, exited_loop, requested >>
    /\ JobFrame

\* Lines 46-53: the factory from the service principal, else from the API
\* key (from_env_with_api_key raises without a key), and the client.
MakeClient ==
    /\ wpc = "auth"
    /\ IF env_has_sp \/ Truthy(env_api_key)
         THEN wpc' = "upload" /\ UNCHANGED werror
         ELSE Raise("ValueError")
    /\ UNCHANGED << env_endpoint, env_api_version, env_deployment_batch,
                    env_has_sp, env_api_key, file_id, batch, batch_id, status,
                    output_file_id, polls, exited_loop, requested >>
    /\ JobFrame

\* The log of remote operations once op is asked for; the polls of one
\* polling loop, which has no bound, take one entry.
Log(req, op) ==
    IF op = "retrieve" /\ Len(req) > 0 /\ req[Len(req)] = "retrieve"
    THEN req
    ELSE Append(req, op)

\* The remote operation op has been asked for.
Asked(op) == \E k \in 1 .. Len(requested) : requested[k] = op

\* Mutant: the file id the upload returned is not looked at.
Upload_NoIdCheck ==
    /\ wpc = "upload"
    /\ requested' = Log(requested, "upload")
    /\ \E id \in FileIds : file_id' = id
    /\ wpc' = "submit"
    /\ UNCHANGED << env_endpoint, env_api_version, env_deployment_batch,
                    env_has_sp, env_api_key, batch, batch_id, status,
                    output_file_id, werror, polls, exited_loop >>
    /\ JobFrame

\* Lines 69-73: the upload is answered.
Upload ==
    /\ wpc = "upload"
    /\ requested' = Log(requested, "upload")
    /\ \E id \in FileIds :
         /\ file_id' = id
         /\ IF ~Truthy(id) THEN Raise("RuntimeError")
            ELSE wpc' = "submit" /\ UNCHANGED werror
    /\ UNCHANGED << env_endpoint, env_api_version, env_deployment_batch,
                    env_has_sp, env_api_key, batch, batch_id, status,
                    output_file_id, polls, exited_loop >>
    /\ JobFrame

\* A remote call raises: the error ends main().
RemoteRaise(op) ==
    /\ requested' = Log(requested, op)
    /\ Raise("RemoteError")
    /\ UNCHANGED << env_endpoint, env_api_version, env_deployment_batch,
                    env_has_sp, env_api_key, file_id, batch, batch_id, status,
                    output_file_id, polls, exited_loop >>
    /\ JobFrame

\* Line 70 raising.
UploadRaise == wpc = "upload" /\ RemoteRaise("upload")

\* Lines 77-95: the submission is answered; the job id is checked and the
\* first status read.
CreateBatch ==
    /\ wpc = "submit"
    /\ requested' = Log(requested, "submit")
    /\ \E b \in [id : BatchIds, status : Statuses, output_file_id : OutputFileIds] :
         /\ batch' = b
         /\ batch_id' = b.id
         /\ IF ~Truthy(b.id)
            THEN Raise("RuntimeError") /\ UNCHANGED status
            ELSE wpc' = "loop" /\ status' = b.status /\ UNCHANGED werror
    /\ UNCHANGED << env_endpoint, env_api_version, env_deployment_batch,
                    env_has_sp, env_api_key, file_id, output_file_id, polls,
                    exited_loop >>
    /\ JobFrame

\* Line 77 raising.
CreateBatchRaise == wpc = "submit" /\ RemoteRaise("submit")

\* Line 97, the condition holds: line 98 sleeps, then the job is asked for.
LoopContinue ==
    /\ wpc = "loop"
    /\ KeepPolling(status)
    /\ wpc' = "retrieve"
    /\ UNCHANGED << env_endpoint, env_api_version, env_deployment_batch,
                    env_has_sp, env_api_key, file_id, batch, batch_id, status,
                    output_file_id, werror, polls, exited_loop, requested >>
    /\ JobFrame

\* Line 97, the condition fails: the loop ends.
LoopExit ==
    /\ wpc = "loop"
    /\ ~KeepPolling(status)
    /\ wpc' = "outputs"
    /\ exited_loop' = TRUE
    /\ UNCHANGED << env_endpoint, env_api_version, env_deployment_batch,
                    env_has_sp, env_api_key, file_id, batch, batch_id, status,
                    output_file_id, werror, polls, requested >>
    /\ JobFrame

\* Lines 99-101: the job is fetched again and its status read.
Retrieve ==
    /\ wpc = "retrieve"
    /\ requested' = Log(requested, "retrieve")
    /\ \E b \in [id : {batch_id}, status : Statuses, output_file_id : OutputFileIds] :
         /\ batch' = b
         /\ status' = b.status
    /\ polls' = IF polls < MaxPolls THEN polls + 1 ELSE polls
    /\ wpc' = "loop"
    /\ UNCHANGED << env_endpoint, env_api_version, env_deployment_batch,
                    env_has_sp, env_api_key, file_id, batch_id, output_file_id,
                    werror, exited_loop >>
    /\ JobFrame

\* Line 99 raising.
RetrieveRaise == wpc = "retrieve" /\ RemoteRaise("retrieve")

\* Lines 104-107: without an output file id main() returns.
FetchOutputs ==
    /\ wpc = "outputs"
    /\ output_file_id' = batch.output_file_id
    /\ wpc' = IF ~Truthy(batch.output_file_id) THEN "done" ELSE "download"
    /\ UNCHANGED << env_endpoint, env_api_version, env_deployment_batch,
                    env_has_sp, env_api_key, file_id, batch, batch_id, status,
                    werror, polls, exited_loop, requested >>
    /\ JobFrame

\* Line 111: the result file is asked for and arrives.
Download ==
    /\ wpc = "download"
    /\ requested' = Log(requested, "download")
    /\ wpc' = "downloaded"
    /\ UNCHANGED << env_endpoint, env_api_version, env_deployment_batch,
                    env_has_sp, env_api_key, file_id, batch, batch_id, status,
                    output_file_id, werror, polls, exited_loop >>
    /\ JobFrame

\* Line 111 raising.
DownloadRaise == wpc = "download" /\ RemoteRaise("download")

InitJob ==
    /\ SessionIdle
    /\ BatchIdle
    /\ JobInit
    /\ ParseIdle
    /\ FactoryIdle
    /\ QuickIdle
    /\ IdentityIdle
    /\ JsonIdle
    /\ BuildIdle

NextJob ==
    \/ CheckEnv
    \/ MakeClient
    \/ Upload
    \/ UploadRaise
    \/ CreateBatch
    \/ CreateBatchRaise
    \/ LoopContinue
    \/ LoopExit
    \/ Retrieve
    \/ RetrieveRaise
    \/ FetchOutputs
    \/ Download
    \/ DownloadRaise

\* One run of the offline batch-job workflow against an arbitrary remote.
SpecJob == InitJob /\ [][NextJob]_vars

\* The same, with main()'s thread never stalling at the loop test: a step of
\* the program that can run does run. Nothing is assumed of the remote.
SpecJobFair == SpecJob /\ WF_vars(LoopContinue) /\ WF_vars(LoopExit)

(* ------- examples/azure_batch_chat.py: reading the result file -------- *)

\* What a result line's "content" field can hold (None: no such field).
Contents == {NoneV, "Hi", "Bye"}

\* The response bodies of the result lines (None: the line has no body).
Bodies == {"body"}

\* The lines of a result file, by what lines 122-133 do with them:
\*   "malformed"   json.loads raises (line 122), a blank line included;
\*   "not_object"  the text is JSON, but a .get of lines 123-132 raises;
\*   "object"      the try block runs to its end.
ResultLines ==
    [kind : {"malformed", "not_object"}, custom_id : {NoneV},
     content : {NoneV}, body : {NoneV}]
    \cup [kind : {"object"}, custom_id : LineIds, content : Contents,
          body : Bodies]

\* json.dumps(body) of line 133.
JsonDumps(b) == IF b = NoneV THEN "null" ELSE "json(" \o b \o ")"

\* Lines 122-132 raise on this line.
LineRaises(l) == l.kind # "object"

\* Line 133: content or json.dumps(body).
Extracted(l) == IF Truthy(l.content) THEN l.content ELSE JsonDumps(l.body)

\* Line 133: by_custom_id[cid] = ...
Store(d, l) == [d EXCEPT ![l.custom_id] = Extracted(l)]

\* Mutant: the reply of prompt i is taken from line i of the file.
Lookup_ByPosition(d, i) ==
    IF i + 1 <= Len(text_lines) /\ ~LineRaises(text_lines[i + 1])
    THEN Extracted(text_lines[i + 1])
    ELSE "<missing>"

\* Mutant: the lookup has no default for a key that is absent.
Lookup_NoDefault(d, i) == d[CustomId(i)]

\* Line 140: by_custom_id.get(f"task-{i}", "<missing>").
Lookup(d, i) ==
    IF d[CustomId(i)] = Absent THEN "<missing>" ELSE d[CustomId(i)]

\* Lines 114-119: the downloaded text, whatever it is, is about to be read.
ParseInit ==
    /\ text_lines \in SeqsUpTo(ResultLines, MaxLines)
    /\ line_no = 1
    /\ by_custom_id = EmptyLookup
    /\ replies = << >>
    /\ rpc = "parse"
    /\ entered = {}

\* Lines 120-133: the try block runs to its end on the next line.
ParseOk ==
    /\ rpc = "parse"
    /\ line_no <= Len(text_lines)
    /\ ~LineRaises(text_lines[line_no])
    /\ by_custom_id' = Store(by_custom_id, text_lines[line_no])
    /\ entered' = entered \cup {line_no}
    /\ line_no' = line_no + 1
    /\ UNCHANGED << text_lines, replies, rpc >>
    /\ ParseFrame

\* Mutant: the try statement encloses the loop, so a raising line ends it.
ParseFail_Abort ==
    /\ rpc = "parse"
    /\ line_no <= Len(text_lines)
    /\ LineRaises(text_lines[line_no])
    /\ line_no' = Len(text_lines) + 1
    /\ UNCHANGED << text_lines, by_custom_id, replies, rpc, entered >>
    /\ ParseFrame

\* Lines 134-135: the try block raises on the next line; the except clause
\* prints and the loop goes on.
ParseFail ==
    /\ rpc = "parse"
    /\ line_no <= Len(text_lines)
    /\ LineRaises(text_lines[line_no])
    /\ line_no' = line_no + 1
    /\ UNCHANGED << text_lines, by_custom_id, replies, rpc, entered >>
    /\ ParseFrame

\* Line 120: no line is left.
ParseEnd ==
    /\ rpc = "parse"
    /\ line_no > Len(text_lines)
    /\ rpc' = "report"
    /\ UNCHANGED << text_lines, line_no, by_custom_id, replies, entered >>
    /\ ParseFrame

\* Lines 138-141: the reply of the next prompt is looked up and printed.
Report ==
    /\ rpc = "report"
    /\ Len(replies) < NumJobPrompts
    /\ replies' = Append(replies, Lookup(by_custom_id, Len(replies)))
    /\ UNCHANGED << text_lines, line_no, by_custom_id, rpc, entered >>
    /\ ParseFrame

\* Line 138: every prompt has been reported; main() returns.
ReportEnd ==
    /\ rpc = "report"
    /\ Len(replies) = NumJobPrompts
    /\ rpc' = "done"
    /\ UNCHANGED << text_lines, line_no, by_custom_id, replies, entered >>
    /\ ParseFrame

InitParse ==
    /\ SessionIdle
    /\ BatchIdle
    /\ JobIdle
    /\ ParseInit
    /\ FactoryIdle
    /\ QuickIdle
    /\ IdentityIdle
    /\ JsonIdle
    /\ BuildIdle

NextParse ==
    \/ ParseOk
    \/ ParseFail
    \/ ParseEnd
    \/ Report
    \/ ReportEnd

\* main() from line 119 on, for an arbitrary downloaded result file.
SpecParse == InitParse /\ [][NextParse]_vars

(* --------- common/azure_openai_factory.py: the client factory --------- *)

\* The endpoints a caller passes (None: not passed).
Endpoints == {NoneV, "", "https://x/"}

\* The API versions a caller passes (None: not passed to a from_env method).
ApiVersions == {NoneV, "2024-06-01"}

\* The token providers a caller passes (None: not passed).
TokenProviders == {NoneV, "provider"}

\* The API keys a caller passes (None: not passed).
ApiKeys == {NoneV, "", "key"}

\* The ways a caller asks for a factory.
Entries == {"init", "from_env_with_identity", "from_env_with_api_key"}

\* Python's `a or b`.
Or(a, b) == IF Truthy(a) THEN a ELSE b

\* os.getenv(name, default) for a variable holding v (None: not set).
GetEnv(v, default) == IF v = NoneV THEN default ELSE v

\* Line 47: endpoint.rstrip("/"), on the endpoints of the model.
RStripSlash(e) == IF e = "https://x/" THEN "https://x" ELSE e

\* Lines 43-46: __init__ refuses these arguments.
InitRaises(endpoint) == ~Truthy(endpoint)

\* Lines 47-50: the factory __init__ leaves.
NewFactory(endpoint, api_version, token_provider, api_key) ==
    [endpoint |-> RStripSlash(endpoint), api_version |-> api_version,
     azure_ad_token_provider |-> token_provider, api_key |-> api_key]

\* Mutant: create_client does not look for a way to authenticate.
CreateClientRaises_Never(f) == FALSE

\* Lines 58-63: create_client finds no way to authenticate.
CreateClientRaises(f) ==
    ~Truthy(f.azure_ad_token_provider) /\ ~Truthy(f.api_key)

\* Lines 54-64: the client create_client returns, by its keyword arguments.
NewClient(f) ==
    IF Truthy(f.azure_ad_token_provider)
    THEN [azure_endpoint |-> f.endpoint, api_version |-> f.api_version,
          auth |-> "azure_ad_token_provider",
          credential |-> f.azure_ad_token_provider]
    ELSE [azure_endpoint |-> f.endpoint, api_version |-> f.api_version,
          auth |-> "api_key", credential |-> f.api_key]

\* A caller is about to ask for a factory, one of the three ways, with any
\* arguments and any environment.
FactoryInit ==
    /\ f_entry \in Entries
    /\ f_endpoint \in Endpoints
    /\ f_api_version \in ApiVersions
    /\ f_token_provider \in TokenProviders
    /\ f_api_key \in ApiKeys
    /\ os_endpoint \in EnvValues
    /\ os_api_version \in EnvValues
    /\ os_api_key \in EnvValues
    /\ fpc = "call"
    /\ factory = << >>
    /\ client = << >>
    /\ f_error = NoError

\* cls(...) or AzureOpenAIClientFactory(...): lines 36-50.
Construct(endpoint, api_version, token_provider, api_key) ==
    /\ IF InitRaises(endpoint)
       THEN fpc' = "raised" /\ f_error' = ValueError /\ factory' = factory
       ELSE /\ fpc' = "factory"
            /\ f_error' = f_error
            /\ factory' = << NewFactory(endpoint, api_version, token_provider,
                                        api_key) >>
    /\ UNCHANGED << f_entry, f_endpoint, f_api_version, f_token_provider,
                    f_api_key, os_endpoint, os_api_version, os_api_key,
                    client >>
    /\ FactoryFrame

\* The classmethod's own ValueError: lines 75-76, 89-92.
FromEnvRaise ==
    /\ fpc' = "raised"
    /\ f_error' = ValueError
    /\ UNCHANGED << f_entry, f_endpoint, f_api_version, f_token_provider,
                    f_api_key, os_endpoint, os_api_version, os_api_key,
                    factory, client >>
    /\ FactoryFrame

\* AzureOpenAIClientFactory(endpoint, api_version, provider, key).
FactoryDirect ==
    /\ fpc = "call"
    /\ f_entry = "init"
    /\ Construct(f_endpoint, f_api_version, f_token_provider, f_api_key)

\* Lines 66-77.
FromEnvWithIdentity ==
    /\ fpc = "call"
    /\ f_entry = "from_env_with_identity"
    /\ LET ep == Or(f_endpoint, os_endpoint)
           ver == Or(f_api_version, GetEnv(os_api_version, "2024-10-21"))
       IN  IF ~Truthy(ep)
           THEN FromEnvRaise
           ELSE Construct(ep, ver, f_token_provider, NoneV)

\* Lines 79-93.
FromEnvWithApiKey ==
    /\ fpc = "call"
    /\ f_entry = "from_env_with_api_key"
    /\ LET ep == Or(f_endpoint, os_endpoint)
           ver == Or(f_api_version, GetEnv(os_api_version, "2024-10-21"))
           key == Or(f_api_key, os_api_key)
       IN  IF ~Truthy(ep) \/ ~Truthy(key)
           THEN FromEnvRaise
           ELSE Construct(ep, ver, NoneV, key)

\* Lines 52-64: factory.create_client().
CreateClient ==
    /\ fpc = "factory"
    /\ IF CreateClientRaises(factory[1])
       THEN fpc' = "raised" /\ f_error' = ValueError /\ client' = client
       ELSE /\ fpc' = "client"
            /\ f_error' = f_error
            /\ client' = << NewClient(factory[1]) >>
    /\ UNCHANGED << f_entry, f_endpoint, f_api_version, f_token_provider,
                    f_api_key, os_endpoint, os_api_version, os_api_key,
                    factory >>
    /\ FactoryFrame

InitFactory ==
    /\ SessionIdle
    /\ BatchIdle
    /\ JobIdle
    /\ ParseIdle
    /\ FactoryInit
    /\ QuickIdle
    /\ IdentityIdle
    /\ JsonIdle
    /\ BuildIdle

NextFactory ==
    \/ FactoryDirect
    \/ FromEnvWithIdentity
    \/ FromEnvWithApiKey
    \/ CreateClient

\* A caller gets a factory and asks it for a client.
SpecFactory == InitFactory /\ [][NextFactory]_vars

(* ----------------------- ChatUtil.quick_chat -------------------------- *)

\* What create_client of the session's factory raises when it raises.
FactoryError == << "FactoryError", 0 >>

\* The errors the remote chat call can raise.
RemoteErrors == {RemoteError(1), RemoteError(2)}

\* Mutant: the ChatUtil keeps one session and uses it for every call.
NewSession_Kept(old, sp) == IF old = << >> THEN CtorMessages(sp) ELSE old

\* Lines 89-94: the session quick_chat works with, old being the session of
\* the call before.
NewSession(old, sp) == CtorMessages(sp)

\* quick_chat ends by raising e.
QuickRaise(e) ==
    /\ qpc' = "ready"
    /\ q_exit' = "raised"
    /\ q_raised' = e
    /\ q_returned' = NoneV
    /\ q_done' = Append(q_done, "raised")

\* Line 82: quick_chat is called on the ChatUtil.
QuickEnter ==
    /\ qpc = "ready"
    /\ Len(q_done) < MaxQuick
    /\ q_deployment' \in Deployments
    /\ q_user_message' \in UserTexts
    /\ q_system_prompt' \in SystemPrompts
    /\ qpc' = "ctor"
    /\ q_request' = << >>
    /\ q_calls' = 0
    /\ q_remote' = NoError
    /\ q_exit' = "none"
    /\ q_returned' = NoneV
    /\ q_raised' = NoError
    /\ UNCHANGED << q_session, q_done >>
    /\ QuickFrame

\* Lines 89-94, ChatSession.__init__ of lines 28-43.
QuickCtor ==
    /\ qpc = "ctor"
    /\ Truthy(q_deployment)
    /\ q_session' = NewSession(q_session, q_system_prompt)
    /\ qpc' = "send"
    /\ UNCHANGED << q_deployment, q_user_message, q_system_prompt, q_request,
                    q_calls, q_remote, q_exit, q_returned, q_raised, q_done >>
    /\ QuickFrame

\* Lines 35-36: ChatSession.__init__ raises, and so does quick_chat.
QuickCtorRaise ==
    /\ qpc = "ctor"
    /\ ~Truthy(q_deployment)
    /\ QuickRaise(ValueError)
    /\ UNCHANGED << q_deployment, q_user_message, q_system_prompt, q_session,
                    q_request, q_calls, q_remote >>
    /\ QuickFrame

\* Line 95, send, line 49: the user message is appended.
QuickAppend ==
    /\ qpc = "send"
    /\ q_session' = AppendUser(q_session, q_user_message)
    /\ qpc' = "appended"
    /\ UNCHANGED << q_deployment, q_user_message, q_system_prompt, q_request,
                    q_calls, q_remote, q_exit, q_returned, q_raised, q_done >>
    /\ QuickFrame

\* send, line 50: the factory hands out a client.
QuickClient ==
    /\ qpc = "appended"
    /\ qpc' = "client"
    /\ UNCHANGED << q_deployment, q_user_message, q_system_prompt, q_session,
                    q_request, q_calls, q_remote, q_exit, q_returned,
                    q_raised, q_done >>
    /\ QuickFrame

\* send, line 50: create_client raises; send and quick_chat pass it on.
QuickClientRaise ==
    /\ qpc = "appended"
    /\ QuickRaise(FactoryError)
    /\ UNCHANGED << q_deployment, q_user_message, q_system_prompt, q_session,
                    q_request, q_calls, q_remote >>
    /\ QuickFrame

\* send, lines 51-55: the remote chat call is made with the session's messages.
QuickCall ==
    /\ qpc = "client"
    /\ q_request' = q_session
    /\ q_calls' = q_calls + 1
    /\ qpc' = "called"
    /\ UNCHANGED << q_deployment, q_user_message, q_system_prompt, q_session,
                    q_remote, q_exit, q_returned, q_raised, q_done >>
    /\ QuickFrame

\* send, lines 56-58, and line 95: the reply is appended and returned.
QuickReturn ==
    /\ qpc = "called"
    /\ \E reply \in Replies :
        /\ q_session' = AppendAssistant(q_session, reply)
        /\ q_returned' = reply
    /\ qpc' = "ready"
    /\ q_exit' = "returned"
    /\ q_done' = Append(q_done, "returned")
    /\ UNCHANGED << q_deployment, q_user_message, q_system_prompt, q_request,
                    q_calls, q_remote, q_raised >>
    /\ QuickFrame

\* Mutant: send makes the remote call once more after a failure.
QuickCallRaise_Retry ==
    /\ qpc = "called"
    /\ \E e \in RemoteErrors : q_remote' = e
    /\ IF q_calls < 2
       THEN /\ qpc' = "client"
            /\ UNCHANGED << q_exit, q_raised, q_returned, q_done >>
       ELSE QuickRaise(q_remote')
    /\ UNCHANGED << q_deployment, q_user_message, q_system_prompt, q_session,
                    q_request, q_calls >>
    /\ QuickFrame

\* send, lines 51-55: the remote call raises; nothing in send or quick_chat
\* catches it.
QuickCallRaise ==
    /\ qpc = "called"
    /\ \E e \in RemoteErrors : q_remote' = e
    /\ QuickRaise(q_remote')
    /\ UNCHANGED << q_deployment, q_user_message, q_system_prompt, q_session,
                    q_request, q_calls >>
    /\ QuickFrame

\* Lines 79-80: a ChatUtil on which no quick_chat is under way.
QuickInit ==
    /\ q_deployment = NoneV
    /\ q_user_message = NoneV
    /\ q_system_prompt = NoneV
    /\ qpc = "ready"
    /\ q_session = << >>
    /\ q_request = << >>
    /\ q_calls = 0
    /\ q_remote = NoError
    /\ q_exit = "none"
    /\ q_returned = NoneV
    /\ q_raised = NoError
    /\ q_done = << >>

InitQuick ==
    /\ SessionIdle
    /\ BatchIdle
    /\ JobIdle
    /\ ParseIdle
    /\ FactoryIdle
    /\ QuickInit
    /\ IdentityIdle
    /\ JsonIdle
    /\ BuildIdle

NextQuick ==
    \/ QuickEnter
    \/ QuickCtor
    \/ QuickCtorRaise
    \/ QuickAppend
    \/ QuickClient
    \/ QuickClientRaise
    \/ QuickCall
    \/ QuickReturn
    \/ QuickCallRaise

\* Successive quick_chat calls on one ChatUtil.
SpecQuick == InitQuick /\ [][NextQuick]_vars

(* ------------- utils/azure_identity.py: AzureIdentityUtil ------------- *)

\* What a caller passes for an argument of from_env (None: not passed).
IdArgs == {NoneV, "", "arg"}

\* Mutant: only the client id is looked at.
Missing_IdOnly(cid, tid, secret) ==
    IF ~Truthy(cid) THEN << "AZURE_CLIENT_ID" >> ELSE << >>

\* Lines 45-53: the names whose value is absent or empty, in dict order.
Missing(cid, tid, secret) ==
    (IF ~Truthy(cid) THEN << "AZURE_CLIENT_ID" >> ELSE << >>)
    \o (IF ~Truthy(tid) THEN << "AZURE_TENANT_ID" >> ELSE << >>)
    \o (IF ~Truthy(secret) THEN << "AZURE_CLIENT_SECRET" >> ELSE << >>)

\* A caller is about to call from_env with any arguments and environment.
IdentityInit ==
    /\ i_client_id \in IdArgs
    /\ i_tenant_id \in IdArgs
    /\ i_client_secret \in IdArgs
    /\ os_client_id \in EnvValues
    /\ os_tenant_id \in EnvValues
    /\ os_client_secret \in EnvValues
    /\ ipc = "call"
    /\ credential = << >>
    /\ i_missing = << >>
    /\ i_error = NoError

\* Lines 33-64: AzureIdentityUtil.from_env(client_id, tenant_id, secret).
FromEnv ==
    /\ ipc = "call"
    /\ LET cid == Or(i_client_id, os_client_id)
           tid == Or(i_tenant_id, os_tenant_id)
           secret == Or(i_client_secret, os_client_secret)
           missing == Missing(cid, tid, secret)
       IN  /\ i_missing' = missing
           /\ IF Len(missing) > 0
              THEN /\ ipc' = "raised"
                   /\ i_error' = ValueError
                   /\ credential' = credential
              ELSE /\ ipc' = "returned"
                   /\ i_error' = i_error
                   /\ credential' = << [tenant_id |-> tid, client_id |-> cid,
                                        client_secret |-> secret] >>
    /\ UNCHANGED << i_client_id, i_tenant_id, i_client_secret, os_client_id,
                    os_tenant_id, os_client_secret >>
    /\ IdentityFrame

\* Lines 66-68: get_token_provider() on the util from_env returned.
GetTokenProvider ==
    /\ ipc = "returned"
    /\ ipc' = "provider"
    /\ UNCHANGED << i_client_id, i_tenant_id, i_client_secret, os_client_id,
                    os_tenant_id, os_client_secret, credential, i_missing,
                    i_error >>
    /\ IdentityFrame

InitIdentity ==
    /\ SessionIdle
    /\ BatchIdle
    /\ JobIdle
    /\ ParseIdle
    /\ FactoryIdle
    /\ QuickIdle
    /\ IdentityInit
    /\ JsonIdle
    /\ BuildIdle

NextIdentity ==
    \/ FromEnv
    \/ GetTokenProvider

\* A caller asks for the service-principal credential.
SpecIdentity == InitIdentity /\ [][NextIdentity]_vars

(* ------------------ common/json_util.py: to_json_array ---------------- *)

\* The elements of the collections passed: an int, a date, a Decimal, a
\* non-ASCII str, and a dict with keys "b" and "a" in that order.
Items == {"int", "date", "dec", "text", "map"}

\* The elements a set can hold (a dict is not hashable).
Hashables == Items \ {"map"}

\* The sequences without a repeated element: a set, by its iteration order.
Distinct(S, n) ==
    {s \in SeqsUpTo(S, n) : \A j, k \in 1 .. Len(s) : s[j] = s[k] => j = k}

\* The values passed as arr, by their type and, for collections, elements.
Arrs ==
    [kind : {"None", "dict", "str", "int"}, items : {<< >>}]
    \cup [kind : {"list", "tuple"}, items : SeqsUpTo(Items, MaxItems)]
    \cup [kind : {"set"}, items : Distinct(Hashables, MaxItems)]

\* json.dumps of one element with default=_json_default (lines 19-38, 57).
Encode(e, ensure_ascii, sort_keys) ==
    CASE e = "int" -> "1"
      [] e = "date" -> "\"2024-01-02\""
      [] e = "dec" -> "1.25"
      [] e = "text" -> IF ensure_ascii THEN "\"\\u00e9\"" ELSE "\"e-acute\""
      [] OTHER -> IF sort_keys THEN "{\"a\": 2, \"b\": 1}"
                  ELSE "{\"b\": 1, \"a\": 2}"

RECURSIVE Joined(_, _, _)
\* The encoded elements of a list, separated by ", ".
Joined(items, ensure_ascii, sort_keys) ==
    IF Len(items) = 0 THEN ""
    ELSE IF Len(items) = 1 THEN Encode(items[1], ensure_ascii, sort_keys)
    ELSE Encode(items[1], ensure_ascii, sort_keys) \o ", "
         \o Joined(Tail(items), ensure_ascii, sort_keys)

\* Line 57: json.dumps(arr, ...) of a list.
Dumps(items, ensure_ascii, sort_keys) ==
    "[" \o Joined(items, ensure_ascii, sort_keys) \o "]"

\* Lines 53-54: a tuple or a set becomes a list.
Normalized(arr) ==
    IF arr.kind \in {"tuple", "set"}
    THEN [kind |-> "list", items |-> arr.items]
    ELSE arr

\* Mutant: a dict is let through to json.dumps.
ToJsonArrayRaises_DictOk(arr) == Normalized(arr).kind \notin {"list", "dict"}

\* Lines 55-56, reached when arr is not None.
ToJsonArrayRaises(arr) == Normalized(arr).kind # "list"

\* A caller is about to call to_json_array with any value and flags.
JsonInit ==
    /\ j_arr \in Arrs
    /\ j_ensure_ascii \in BOOLEAN
    /\ j_sort_keys \in BOOLEAN
    /\ jpc = "call"
    /\ j_result = NoneV
    /\ j_error = NoError

\* Lines 51-52 and 57: to_json_array returns a JSON text.
ToJsonArrayReturn ==
    /\ jpc = "call"
    /\ j_arr.kind = "None" \/ ~ToJsonArrayRaises(j_arr)
    /\ j_result' = IF j_arr.kind = "None"
                   THEN "[]"
                   ELSE Dumps(Normalized(j_arr).items, j_ensure_ascii,
                              j_sort_keys)
    /\ jpc' = "done"
    /\ UNCHANGED << j_arr, j_ensure_ascii, j_sort_keys, j_error >>
    /\ JsonFrame

\* Lines 55-56: to_json_array raises ValueError.
ToJsonArrayRaise ==
    /\ jpc = "call"
    /\ j_arr.kind # "None"
    /\ ToJsonArrayRaises(j_arr)
    /\ j_error' = ValueError
    /\ jpc' = "done"
    /\ UNCHANGED << j_arr, j_ensure_ascii, j_sort_keys, j_result >>
    /\ JsonFrame

InitJson ==
    /\ SessionIdle
    /\ BatchIdle
    /\ JobIdle
    /\ ParseIdle
    /\ FactoryIdle
    /\ QuickIdle
    /\ IdentityIdle
    /\ JsonInit
    /\ BuildIdle

NextJson ==
    \/ ToJsonArrayReturn
    \/ ToJsonArrayRaise

\* One call of to_json_array.
SpecJson == InitJson /\ [][NextJson]_vars

(* -------- examples/azure_batch_chat.py: build_jsonl_lines ------------- *)

\* The system prompts a caller passes (line 14 has the default, line 62
\* main's).
BuildSystemPrompts == {"", "You are helpful.", "Be concise."}

\* Mutant: every entry is given the id of the first.
NewEntry_SameId(dep, sp, i, p) ==
    [custom_id |-> CustomId(0), method |-> "POST", url |-> "/chat/completions",
     body |-> [model |-> dep,
               messages |-> << Msg("system", sp), Msg("user", p) >>]]

\* Lines 17-29: the entry of prompt p at index i.
NewEntry(dep, sp, i, p) ==
    [custom_id |-> CustomId(i), method |-> "POST", url |-> "/chat/completions",
     body |-> [model |-> dep,
               messages |-> << Msg("system", sp), Msg("user", p) >>]]

\* json.dumps of a message dict.
JsonMessage(m) ==
    "{\"role\": \"" \o m.role \o "\", \"content\": \"" \o m.content \o "\"}"

\* Line 30: json.dumps(entry), keys in insertion order.
JsonEntry(e) ==
    "{\"custom_id\": \"" \o e.custom_id \o "\", \"method\": \"" \o e.method
    \o "\", \"url\": \"" \o e.url \o "\", \"body\": {\"model\": \""
    \o e.body.model \o "\", \"messages\": ["
    \o JsonMessage(e.body.messages[1]) \o ", "
    \o JsonMessage(e.body.messages[2]) \o "]}}"

\* Line 14: build_jsonl_lines is called with any arguments.
BuildInit ==
    /\ jl_deployment \in Deployments
    /\ jl_prompts \in SeqsUpTo(PromptTexts, MaxPrompts)
    /\ jl_system_prompt \in BuildSystemPrompts
    /\ jl_i = 0
    /\ jl_entries = << >>
    /\ jl_lines = << >>
    /\ jlpc = "loop"

\* Lines 16-30: the entry of the next prompt is built and its JSON appended.
BuildEntry ==
    /\ jlpc = "loop"
    /\ jl_i < Len(jl_prompts)
    /\ LET entry == NewEntry(jl_deployment, jl_system_prompt, jl_i,
                             jl_prompts[jl_i + 1])
       IN  /\ jl_entries' = Append(jl_entries, entry)
           /\ jl_lines' = Append(jl_lines, JsonEntry(entry))
    /\ jl_i' = jl_i + 1
    /\ UNCHANGED << jl_deployment, jl_prompts, jl_system_prompt, jlpc >>
    /\ BuildFrame

\* Lines 16 and 31: the prompts are exhausted and lines is returned.
BuildReturn ==
    /\ jlpc = "loop"
    /\ jl_i = Len(jl_prompts)
    /\ jlpc' = "returned"
    /\ UNCHANGED << jl_deployment, jl_prompts, jl_system_prompt, jl_i,
                    jl_entries, jl_lines >>
    /\ BuildFrame

InitBuild ==
    /\ SessionIdle
    /\ BatchIdle
    /\ JobIdle
    /\ ParseIdle
    /\ FactoryIdle
    /\ QuickIdle
    /\ IdentityIdle
    /\ JsonIdle
    /\ BuildInit

NextBuild ==
    \/ BuildEntry
    \/ BuildReturn

\* One call of build_jsonl_lines.
SpecBuild == InitBuild /\ [][NextBuild]_vars

(* ------------- either program, from its configuration on -------------- *)

InitConfig == InitJob \/ InitQuick

NextConfig == NextJob \/ NextQuick

\* A run of the batch-job workflow, or quick_chat calls on a ChatUtil.
SpecConfig == InitConfig /\ [][NextConfig]_vars

(* ------------------------ claims: ChatSession ------------------------- *)

IsPrefix(a, b) == Len(a) <= Len(b) /\ SubSeq(b, 1, Len(a)) = a

\* The single caller is outside send(): history() can be observed.
Quiescent == \A t \in callers : pc[t] = "idle"

\* C1: with a single caller, after K sends that all succeeded since
\* construction or the last reset, history() has 1 + 2K entries when a
\* non-empty system prompt was given and 2K entries otherwise; with K = 0 and
\* a system prompt the single entry has role system.
C1_HistoryLength ==
    (Quiescent /\ sends_failed = 0) =>
        LET h == history(messages)
            given == initial_system_prompt \notin {NoneV, ""}
        IN  /\ Len(h) = (IF given THEN 1 ELSE 0) + 2 * sends_ok
            /\ (given /\ sends_ok = 0) => h[1].role = "system"

C1_Witness ==
    /\ Quiescent /\ sends_failed = 0 /\ sends_ok = 2
    /\ initial_system_prompt = "You are concise."
    /\ Len(history(messages)) = 5

\* C2: whatever sends (failed ones included) and resets came before, once
\* reset() has returned the history equals the history right after
\* construction: empty without a system prompt, else the single system
\* message with the original content.
C2_ResetRestores ==
    (last_op = "reset" /\ Quiescent) =>
        /\ history(messages) = constructed
        /\ history(messages) =
              IF initial_system_prompt \in {NoneV, ""} THEN << >>
              ELSE << [role |-> "system", content |-> initial_system_prompt] >>

\* reset() has just returned on a session with a system prompt whose last
\* send returned "ok": only the system message is left.
C2_Witness ==
    /\ last_op = "reset" /\ Quiescent
    /\ text["A"] = "ok"
    /\ initial_system_prompt = "You are concise."
    /\ messages = << [role |-> "system", content |-> "You are concise."] >>

\* A system message stands nowhere but at the head of the history.
SystemOnlyAtHead ==
    \A i \in 1..Len(messages) : messages[i].role = "system" => i = 1

\* A step keeps the old history as a prefix of the new one, or is a reset.
AppendOnlyExceptReset ==
    \/ IsPrefix(messages, messages')
    \/ \E t \in callers : Reset(t)

\* C3: with a single caller a system message occurs at most once and only at
\* index 0 (index 1 here), every step of send keeps the previous history as a
\* prefix of the new one, and only reset shortens the history.
C3_AppendOnly == []SystemOnlyAtHead /\ [][AppendOnlyExceptReset]_vars

\* A history of five messages grown by a returned and a raised send.
C3_Witness ==
    /\ Len(messages) >= 5 /\ messages[1].role = "system"
    /\ sends_failed >= 1 /\ sends_ok >= 1

(* ------------------------- claims: batch_chat ------------------------- *)

\* What a request built from the optional system prompt and one user message holds.
OneShot(sp, um) ==
    IF sp \in {NoneV, ""}
    THEN << [role |-> "user", content |-> um] >>
    ELSE << [role |-> "system", content |-> sp], [role |-> "user", content |-> um] >>

Failed == { i \in Calls : tpc[i] = "raised" }

\* C4: for any N prompts, any pool size >= 1 and any completion order, when
\* every call succeeds batch_chat (given a deployment name) returns a list of
\* length N whose i-th element is the reply the remote gave to the request
\* carrying the i-th prompt.
C4_RepliesInInputOrder ==
    (bpc = "done" /\ deployment # "" /\ Failed = {}) =>
        /\ exit_kind = "returned"
        /\ Len(returned) = Len(prompts)
        /\ \A i \in 1..Len(prompts) :
              /\ outcome[i].ok
              /\ returned[i] = outcome[i].text
              /\ call_request[i][Len(call_request[i])]
                    = [role |-> "user", content |-> prompts[i]]

\* Three replies returned in input order although a later call finished first.
C4_Witness ==
    /\ bpc = "done" /\ exit_kind = "returned" /\ overtaken
    /\ Len(prompts) = 3 /\ max_workers = 2
    /\ returned = << "ok", "fine", "ok" >>

\* C5: if any call fails, batch_chat raises a failed call's error (the one
\* of the first failed call in input order) and returns no list, whatever
\* replies the other calls produced; before it ends nothing is delivered.
C5_FailureAbortsBatch ==
    /\ exit_kind # "returned" => returned = << >>
    /\ (bpc = "done" /\ Failed # {}) =>
          /\ exit_kind = "raised"
          /\ \E i \in Failed :
                /\ raised = << "RemoteError", i >>
                /\ \A j \in Failed : i <= j

\* The second call failed after the first reply had been collected.
C5_Witness ==
    /\ bpc = "done" /\ exit_kind = "raised"
    /\ Len(prompts) = 3
    /\ tpc[1] = "returned" /\ tpc[2] = "raised" /\ tpc[3] = "returned"
    /\ results = << "ok" >> /\ returned = << >>
    /\ raised = << "RemoteError", 2 >>

\* C6: batch_chat has not handed control back to its caller, by return or
\* by raise, while a submitted call is pending or running.
C6_BlocksUntilAllDone ==
    (bpc = "done" \/ exit_kind # "none") =>
        \A i \in Calls : fut[i] \notin {"pending", "running"}

\* The first call's error is on its way out while other calls are queued and
\* running: the with block cannot be left yet.
C6_Witness ==
    /\ bpc = "exit" /\ pending_error = << "RemoteError", 1 >>
    /\ Len(prompts) = 3
    /\ fut[2] = "running" /\ fut[3] = "pending"
    /\ exit_kind = "none"
    /\ ~ENABLED ExitWith

\* C7: under every interleaving each call's session holds only that call's
\* messages: the request issued for prompt i is exactly [system prompt if
\* set, user prompt i], and the session never holds another prompt or another
\* call's reply.
C7_SessionsNotShared ==
    \A i \in Calls :
        /\ tpc[i] \in {"called", "returned"} =>
              call_request[i] = OneShot(system_prompt, prompts[i])
        /\ tpc[i] \in {"appended", "called"} =>
              session[i] = OneShot(system_prompt, prompts[i])
        /\ tpc[i] = "returned" =>
              session[i] = OneShot(system_prompt, prompts[i])
                             \o << [role |-> "assistant", content |-> outcome[i].text] >>
        /\ tpc[i] = "raised" =>
              /\ session[i] = OneShot(system_prompt, prompts[i])
              /\ call_request[i] \in { << >>, OneShot(system_prompt, prompts[i]) }

\* Two workers are inside their remote calls at once, with different prompts.
C7_Witness ==
    /\ Len(prompts) >= 2 /\ prompts[1] # prompts[2]
    /\ tpc[1] = "called" /\ tpc[2] = "called"
    /\ system_prompt = "You are concise."

(* --------------------- claims: batch-job workflow --------------------- *)

Terminal(st) == st \in {"completed", "failed", "cancelled"}

\* C9: the status is fetched again only while the last one fetched is not
\* terminal, control passes the polling loop only with a last fetched status
\* of completed, failed or cancelled, and the result file is never asked for
\* while the last observed status is non-terminal. (A raising retrieve call
\* ends main() altogether: nothing after the loop runs.)
C9_LoopLeftOnlyWhenTerminal ==
    /\ wpc = "retrieve" => ~Terminal(status)
    /\ (exited_loop \/ wpc \in {"outputs", "download", "downloaded", "done"})
          => (Terminal(status) /\ exited_loop)
    /\ Asked("download") => (Terminal(status) /\ exited_loop)
    /\ ~Terminal(status) => ~ENABLED Download

\* The result file was asked for after three polls, the last one completed.
C9_Witness ==
    /\ wpc = "downloaded" /\ Asked("download")
    /\ polls = 3 /\ status = "completed"

\* C10: the polling loop ends if and only if a terminal status is observed:
\* it has ended only with a terminal last status, it does end once one is
\* observed, and while the remote reports any other status (absent and
\* unknown ones included) the next step is another poll, however many polls
\* were made. (Ending means the loop condition failing; a raising retrieve
\* call is the remote not reporting, and ends main().)
C10_PollsUntilTerminal ==
    /\ [](exited_loop => Terminal(status))
    /\ [](wpc = "loop" /\ ~Terminal(status) => ENABLED LoopContinue /\ ~ENABLED LoopExit)
    /\ [](wpc = "loop" /\ Terminal(status) => ENABLED LoopExit /\ ~ENABLED LoopContinue)
    /\ [](wpc = "retrieve" => ENABLED Retrieve)
    /\ ((wpc = "loop" /\ Terminal(status)) ~> exited_loop)
    /\ ((wpc = "loop" /\ ~Terminal(status)) ~> wpc = "retrieve")

\* After the ghost count has stopped counting, the remote reports a status
\* the program does not know, and the loop goes for one more poll.
C10_Witness ==
    /\ wpc = "retrieve" /\ polls = MaxPolls /\ status = "expired"
    /\ ~exited_loop

(* ---------------- two callers on one ChatSession (no lock) ------------ *)

InitRace ==
    /\ SessionInit({"A", "B"})
    /\ BatchIdle
    /\ JobIdle
    /\ ParseIdle
    /\ FactoryIdle
    /\ QuickIdle
    /\ IdentityIdle
    /\ JsonIdle
    /\ BuildIdle

NextSend ==
    \E t \in Threads :
        \/ SendAppend(t)
        \/ SendCall(t)
        \/ SendReturn(t)
        \/ SendRaise(t)

\* One ChatSession on which two threads call send(): the steps of their calls
\* interleave freely, as nothing in send() holds a lock.
SpecRace == InitRace /\ [][NextSend]_vars

InSend(t) == pc[t] \in {"appended", "called"}

Roles(msgs) == [i \in 1..Len(msgs) |-> msgs[i].role]

\* C8: two concurrent send calls on one session are not serialized. While
\* one caller is inside send the other can always start its own send (no
\* mutual exclusion), the request a caller is about to issue is the whole
\* shared history, and a request in flight holds the caller's own prefix and
\* user message followed by whatever the other caller appended before the
\* call. The witness is the interleaving of the claim: a request holding both
\* callers' user messages with no reply between them, and a final history
\* user, user, assistant, assistant.
C8_NotSerialized ==
    \A t \in callers : \A u \in callers \ {t} :
        /\ (InSend(t) /\ pc[u] = "idle" /\ Len(messages) < MaxHistory)
               => ENABLED SendAppend(u)
        /\ pc[t] = "appended" => ENABLED (SendCall(t) /\ request'[t] = messages)
        /\ pc[t] = "called" =>
               /\ IsPrefix(AppendUser(before[t], user_message[t]), request[t])
               /\ IsPrefix(request[t], messages)

C8_Witness ==
    /\ initial_system_prompt = NoneV
    /\ pc["A"] = "idle" /\ pc["B"] = "called"
    /\ request["B"] = << [role |-> "user", content |-> "Hello"],
                         [role |-> "user", content |-> "How are you?"] >>
    /\ Roles(messages) = << "user", "user", "assistant" >>
    /\ ENABLED ( /\ SendReturn("B")
                 /\ Roles(messages') = << "user", "user", "assistant", "assistant" >>
                 /\ \A t \in callers : pc'[t] = "idle" )

(* -------------------- claims: reading the result file ----------------- *)

\* Line k of the result file is read to the end and carries task-i.
AnswersPrompt(k, i) ==
    /\ text_lines[k].kind = "object"
    /\ text_lines[k].custom_id = CustomId(i)

\* No two lines that are read to the end carry the same custom_id.
UniqueIds ==
    \A j, k \in 1 .. Len(text_lines) :
        /\ text_lines[j].kind = "object"
        /\ text_lines[k].kind = "object"
        /\ text_lines[j].custom_id = text_lines[k].custom_id
        => j = k

C12_MissingReported ==
    /\ rpc = "report" =>
        /\ Len(replies) <= NumJobPrompts
        /\ ENABLED (Report \/ ReportEnd)
    /\ rpc = "done" =>
        /\ Len(replies) = NumJobPrompts
        /\ \A i \in 0 .. NumJobPrompts - 1 :
            (\A k \in entered : text_lines[k].custom_id # CustomId(i))
                => replies[i + 1] = "<missing>"

\* Only task-0 has a line that is read to the end; the other two prompts are
\* reported as missing.
C12_Witness ==
    /\ rpc = "done"
    /\ Len(text_lines) = 2
    /\ text_lines[1].kind = "malformed"
    /\ AnswersPrompt(2, 0)
    /\ text_lines[2].content = "Hi"
    /\ replies = << "Hi", "<missing>", "<missing>" >>

\* The last line read to the end that carries custom_id c, 0 if there is none.
LastWith(c) ==
    LET ks == {k \in 1 .. Len(text_lines) :
                 text_lines[k].kind = "object" /\ text_lines[k].custom_id = c}
    IN  IF ks = {} THEN 0 ELSE CHOOSE k \in ks : \A j \in ks : j <= k

\* C13: a line that fails to parse is passed over and the loop goes on with
\* the next line; once the loop has ended every line that does parse, before
\* or after a failing one, has been entered in by_custom_id.
C13_BadLineSkipped ==
    /\ (rpc = "parse" /\ line_no <= Len(text_lines)) =>
        ENABLED ((ParseOk \/ ParseFail) /\ line_no' = line_no + 1)
    /\ rpc \in {"report", "done"} =>
        /\ \A k \in 1 .. Len(text_lines) :
            text_lines[k].kind = "object" <=> k \in entered
        /\ \A c \in LineIds :
            IF LastWith(c) = 0
            THEN by_custom_id[c] = Absent
            ELSE by_custom_id[c] =
                    IF text_lines[LastWith(c)].content \in {NoneV, ""}
                    THEN JsonDumps(text_lines[LastWith(c)].body)
                    ELSE text_lines[LastWith(c)].content

\* A line that fails to parse stands between two lines that do, and both are
\* in the lookup.
C13_Witness ==
    /\ rpc = "done"
    /\ Len(text_lines) = 3
    /\ AnswersPrompt(1, 0)
    /\ text_lines[2].kind = "malformed"
    /\ AnswersPrompt(3, 1)
    /\ entered = {1, 3}
    /\ by_custom_id[CustomId(0)] # Absent
    /\ by_custom_id[CustomId(1)] # Absent

(* ---------------------- claims: the client factory -------------------- *)

\* The endpoint, token provider and key the construction works with: the
\* caller's, which the from_env methods complete from the environment.
GivenEndpoint ==
    IF f_entry = "init" THEN f_endpoint ELSE Or(f_endpoint, os_endpoint)

GivenProvider ==
    IF f_entry = "from_env_with_api_key" THEN NoneV ELSE f_token_provider

GivenKey ==
    CASE f_entry = "init" -> f_api_key
      [] f_entry = "from_env_with_identity" -> NoneV
      [] OTHER -> Or(f_api_key, os_api_key)

\* An endpoint and at least one way to authenticate are supplied.
Configured ==
    /\ GivenEndpoint \notin {NoneV, ""}
    /\ GivenProvider # NoneV \/ GivenKey \notin {NoneV, ""}

\* C14: asking for a client ends with a ValueError and no client when the
\* endpoint is absent or empty, or when neither a token provider nor a key is
\* supplied; with an endpoint and a way to authenticate it ends with a client
\* for that endpoint.
C14_ClientOrConfigError ==
    /\ client # << >> => Configured
    /\ fpc \in {"call", "factory"} => ENABLED NextFactory
    /\ fpc = "raised" =>
        /\ ~Configured
        /\ f_error = ValueError
        /\ client = << >>
    /\ fpc = "client" =>
        /\ Configured
        /\ Len(client) = 1
        /\ client[1].azure_endpoint = RStripSlash(GivenEndpoint)
        /\ client[1].credential \in {GivenProvider, GivenKey}
        /\ client[1].credential \notin {NoneV, ""}

\* A factory built with an endpoint but with an empty key and no token
\* provider: create_client has raised.
C14_Witness ==
    /\ f_entry = "init"
    /\ f_endpoint = "https://x/"
    /\ f_token_provider = NoneV
    /\ f_api_key = ""
    /\ Len(factory) = 1
    /\ fpc = "raised"
    /\ f_error = ValueError
    /\ client = << >>

(* ------------------------ claims: configuration ----------------------- *)

\* The batch workflow lacks a value it requires: the endpoint, the API
\* version, the batch deployment name, or, with key auth, the API key.
JobConfigMissing ==
    \/ env_endpoint \in {NoneV, ""}
    \/ env_api_version \in {NoneV, ""}
    \/ env_deployment_batch \in {NoneV, ""}
    \/ ~env_has_sp /\ env_api_key \in {NoneV, ""}

\* C15: when a required configuration value is missing or empty (endpoint,
\* API version, deployment name or key-auth API key of the batch workflow;
\* deployment name of a chat session), the program makes no remote call, and
\* its next steps end it with a configuration error.
C15_ConfigErrorBeforeRemote ==
    /\ (wpc # "idle" /\ JobConfigMissing) =>
        /\ requested = << >>
        /\ wpc \in {"env", "auth", "raised"}
        /\ wpc \in {"env", "auth"} => ENABLED (CheckEnv \/ MakeClient)
        /\ wpc = "raised" => werror \in {"RuntimeError", "ValueError"}
    /\ (qpc \notin {"idle", "ready"} /\ q_deployment = "") =>
        /\ qpc = "ctor"
        /\ ENABLED QuickCtorRaise
    /\ (q_exit # "none" /\ q_deployment = "") =>
        /\ q_exit = "raised"
        /\ q_raised = ValueError
        /\ q_calls = 0
        /\ q_request = << >>

\* Key auth without a key: main() has ended with the ValueError of
\* from_env_with_api_key, and nothing was asked of the remote.
C15_Witness ==
    /\ env_endpoint = "set"
    /\ env_api_version = "set"
    /\ env_deployment_batch = "set"
    /\ ~env_has_sp
    /\ env_api_key = ""
    /\ wpc = "raised"
    /\ werror = "ValueError"
    /\ requested = << >>

(* --------------------------- claims: quick_chat ----------------------- *)

\* C16 as stated: a send that has ended made exactly one remote chat call,
\* and if it raised, it raised the error of that call.
C16_ExactlyOneCall ==
    (q_exit # "none" /\ Truthy(q_deployment)) =>
        /\ q_calls = 1
        /\ q_exit = "raised" => q_raised = q_remote

\* C16: a send makes at most one remote chat call, and exactly one unless
\* creating the client fails first; if the call fails, send and quick_chat
\* raise that same error, and no second call is made.
C16_OneCallNoRetry ==
    /\ q_calls <= 1
    /\ q_exit = "returned" => q_calls = 1 /\ q_remote = NoError
    /\ (q_exit = "raised" /\ Truthy(q_deployment)) =>
        \/ q_raised = FactoryError /\ q_calls = 0 /\ q_remote = NoError
        \/ /\ q_calls = 1
           /\ q_remote \in RemoteErrors
           /\ q_raised = q_remote
    /\ q_remote # NoError => q_exit = "raised"

\* The one remote call of a send has failed with the second of the remote's
\* errors, and quick_chat has raised that error.
C16_Witness ==
    /\ q_exit = "raised"
    /\ q_calls = 1
    /\ q_remote = RemoteError(2)
    /\ q_raised = RemoteError(2)
    /\ Len(q_request) > 0

\* C19: whatever quick_chat calls were made before, the session of a call
\* starts from the system prompt alone, and the request of the call holds the
\* system prompt, if one is given, and the call's own user message, nothing
\* else.
C19_QuickChatStateless ==
    LET head == IF q_system_prompt \in {NoneV, ""}
                THEN << >>
                ELSE << Msg("system", q_system_prompt) >>
    IN  /\ qpc = "send" => q_session = head
        /\ q_request # << >> =>
            q_request = head \o << Msg("user", q_user_message) >>

\* A second quick_chat, after one that returned a reply, sends its own user
\* message and nothing else.
C19_Witness ==
    /\ q_done = << "returned" >>
    /\ qpc = "called"
    /\ q_system_prompt = NoneV
    /\ q_request = << Msg("user", "How are you?") >>

(* ----------------------- claims: AzureIdentityUtil -------------------- *)

\* The value from_env works with: the argument when one is passed and not
\* empty, else the environment variable.
Preferred(arg, env) == IF arg \in {NoneV, ""} THEN env ELSE arg

\* C17: from_env ends with a ValueError, and with no credential constructed,
\* whenever the client id, the tenant id or the secret is absent or empty
\* once the arguments have been preferred to the environment; otherwise the
\* credential is built from the preferred values.
C17_MissingCredentialValue ==
    LET cid == Preferred(i_client_id, os_client_id)
        tid == Preferred(i_tenant_id, os_tenant_id)
        secret == Preferred(i_client_secret, os_client_secret)
        lacking == {v \in {cid, tid, secret} : v \in {NoneV, ""}}
    IN  /\ ipc = "call" => ENABLED FromEnv /\ credential = << >>
        /\ ipc \notin {"idle", "call"} =>
            /\ lacking # {} <=> ipc = "raised"
            /\ ipc = "raised" => i_error = ValueError /\ credential = << >>
            /\ ipc # "raised" =>
                credential = << [tenant_id |-> tid, client_id |-> cid,
                                 client_secret |-> secret] >>

\* The client id is passed and the secret is in the environment, but the
\* tenant id is passed empty and not set: from_env has raised, naming it.
C17_Witness ==
    /\ i_client_id = "arg"
    /\ i_tenant_id = ""
    /\ os_tenant_id = NoneV
    /\ i_client_secret = NoneV
    /\ os_client_secret = "set"
    /\ ipc = "raised"
    /\ i_error = ValueError
    /\ i_missing = << "AZURE_TENANT_ID" >>
    /\ credential = << >>

(* -------------------------- claims: to_json_array --------------------- *)

\* The types of the model's values that are not sequences (a str is one).
NonSequences == {"None", "set", "dict", "int"}

SendSucceeds(t) ==
    pc[t] = "called" /\ pc'[t] = "idle" /\ sends_ok' = sends_ok + 1

\* C20: a send(text) that returns, called on a session with history H, has
\* issued its one request with the messages H followed by the user message
\* text, and leaves the history H followed by that user message and the
\* assistant reply, whose content is the value send returns.
C20_SendExchange ==
    [][\A t \in callers :
        /\ request'[t] \notin {request[t], << >>} =>
            pc[t] = "appended" /\ request[t] = << >>
        /\ SendSucceeds(t) =>
            /\ request[t] = before[t] \o << Msg("user", user_message[t]) >>
            /\ text'[t] \in Replies
            /\ messages' = before[t] \o << Msg("user", user_message[t]),
                                           Msg("assistant", text'[t]) >>
      ]_vars

\* A second exchange on a session without system prompt has just returned
\* "fine": the history holds the first exchange followed by the second.
C20_Witness ==
    /\ initial_system_prompt = NoneV
    /\ last_op = "send"
    /\ pc["A"] = "idle"
    /\ text["A"] = "fine"
    /\ messages = << Msg("user", "Hello"), Msg("assistant", "ok"),
                     Msg("user", "How are you?"), Msg("assistant", "fine") >>

(* ---------------------- claims: build_jsonl_lines --------------------- *)

\* C21: for a list of N prompts build_jsonl_lines returns exactly N lines,
\* one per prompt in input order; the custom_ids of the entries are task-0 to
\* task-(N-1) and pairwise distinct, and entry i carries the system message
\* followed by prompt i as its user message, and nothing else.
C21_OneEntryPerPrompt ==
    jlpc = "returned" =>
        /\ Len(jl_lines) = Len(jl_prompts)
        /\ Len(jl_entries) = Len(jl_prompts)
        /\ \A i \in 1 .. Len(jl_prompts) :
            /\ jl_entries[i].custom_id = "task-" \o ToString(i - 1)
            /\ jl_entries[i].body.messages =
                << [role |-> "system", content |-> jl_system_prompt],
                   [role |-> "user", content |-> jl_prompts[i]] >>
            /\ jl_lines[i] = JsonEntry(jl_entries[i])
        /\ \A i, j \in 1 .. Len(jl_prompts) :
            i # j => /\ jl_entries[i].custom_id # jl_entries[j].custom_id
                     /\ jl_lines[i] # jl_lines[j]

\* Three prompts, two of them the same text: three entries with three ids.
C21_Witness ==
    /\ jlpc = "returned"
    /\ jl_prompts = << "Hello", "How are you?", "Hello" >>
    /\ Len(jl_lines) = 3
    /\ jl_entries[1].custom_id = "task-0"
    /\ jl_entries[3].custom_id = "task-2"
    /\ jl_entries[3].body.messages[2].content = "Hello"

(* ------------------------ claims: a failed send ----------------------- *)

\* The step by which the send of caller t ends with an error.
SendFails(t) ==
    pc[t] \in {"appended", "called"} /\ sends_failed' = sends_failed + 1

\* The last two messages of a request are user messages, the last one um.
EndsWithTwoUsers(req, um) ==
    /\ Len(req) >= 2
    /\ req[Len(req) - 1].role = "user"
    /\ req[Len(req)] = [role |-> "user", content |-> um]

\* C22: a send that ends with an error leaves the history as it was when the
\* error came, with the user message the send appended still at its end; so
\* the request of the send that follows holds two user messages in a row.
C22_FailedSendKeepsUserMessage ==
    /\ [](\A t \in callers :
            (pc[t] = "called" /\ last_op = "send_raised") =>
                EndsWithTwoUsers(request[t], user_message[t]))
    /\ [][\A t \in callers :
            SendFails(t) =>
                /\ messages' = messages
                /\ messages' = before[t] \o
                      << [role |-> "user", content |-> user_message[t]] >>
         ]_vars

\* A send failed, and the send that followed has returned: the history holds
\* both user messages and then the one reply.
C22_Witness ==
    /\ initial_system_prompt = NoneV
    /\ sends_failed = 1
    /\ sends_ok = 1
    /\ last_op = "send"
    /\ text["A"] = "ok"
    /\ messages = << Msg("user", "Hello"), Msg("user", "How are you?"),
                     Msg("assistant", "ok") >>

(* -------------------- claims: order of the workflow ------------------- *)

\* C23: the workflow asks the remote for the upload, the submission, the
\* polls and the download in that order, each of the other three at most
\* once; the job is submitted only with the file id the upload returned,
\* polling starts only with the job id the submission returned, and when the
\* job the loop ended on carries no output file id main() ends without
\* asking for a download.
C23_RemoteStepsInOrder ==
    /\ \/ IsPrefix(requested, << "upload", "submit", "retrieve", "download" >>)
       \/ IsPrefix(requested, << "upload", "submit", "download" >>)
    /\ Asked("submit") => file_id \notin {NoneV, ""}
    /\ (Asked("retrieve") \/ wpc \in {"loop", "retrieve"}) =>
        Asked("submit") /\ batch_id \notin {NoneV, ""}
    /\ Asked("download") =>
        /\ Asked("submit")
        /\ exited_loop
        /\ output_file_id \notin {NoneV, ""}
    /\ (exited_loop /\ batch.output_file_id \in {NoneV, ""}) =>
        /\ ~Asked("download")
        /\ wpc \in {"outputs", "done"}
        /\ wpc = "outputs" => ENABLED FetchOutputs /\ ~ENABLED Download

\* The job failed after polling and carries no output file: main() has ended
\* after upload, submission and polls, without a download.
C23_Witness ==
    /\ wpc = "done"
    /\ status = "failed"
    /\ polls = 2
    /\ output_file_id = NoneV
    /\ requested = << "upload", "submit", "retrieve" >>

====
